---------------------------- MODULE Spec2Model ----------------------------
(***************************************************************************)
(* Still Grateful API: the POST /send pipeline of the Cloudflare Worker    *)
(* (stillgrateful-api/src/index.ts) over its D1 tables (migrations/        *)
(* 0001_initial_schema.sql).                                               *)
(*                                                                         *)
(* A string is a sequence of one-character strings.  Every await of the    *)
(* handler that touches the store or an external service is one action,    *)
(* so requests in different slots interleave exactly at those awaits.      *)
(***************************************************************************)
EXTENDS Integers, Sequences, FiniteSets, TLC

(***************************************************************************)
(* Program constants                                                       *)
(***************************************************************************)
MAX_MESSAGE_LENGTH == 2000

MAX_SENDS_PER_WINDOW == 5

RATE_LIMIT_WINDOW_HOURS == 24

VALID_CONTEXT_TAGS ==
    { <<"f","o","r","m","e","r","-","s","t","u","d","e","n","t">>,
      <<"f","o","r","m","e","r","-","t","e","a","c","h","e","r">>,
      <<"o","l","d","-","f","r","i","e","n","d">>,
      <<"f","o","r","m","e","r","-","c","o","l","l","e","a","g","u","e">>,
      <<"f","o","r","m","e","r","-","t","e","a","m","m","a","t","e">>,
      <<"f","a","m","i","l","y","-","m","e","m","b","e","r">>,
      <<"m","e","n","t","o","r">>,
      <<"o","t","h","e","r">> }

(***************************************************************************)
(* Bounds of the model                                                     *)
(***************************************************************************)
\* requests received in one behaviour of Spec (concurrent slots)
MaxRequests == 2

\* requests received in one behaviour of SpecSeq (one request at a time)
MaxSeqRequests == 6

\* clock ticks in one behaviour
MaxTicks == 3

\* hours per clock tick
TickHours == 12

\* rows table sends takes in SpecSeq before every further insert fails
MaxLog == 2

\* rows table sends takes in Spec before every further insert fails
MaxConcLog == 1

\* request slots that run concurrently
NSlots == 2

Slots == 1..NSlots

(***************************************************************************)
(* Strings                                                                 *)
(***************************************************************************)
WhiteSpace == {" ", "\t", "\n"}

UPPER == <<"A","B","C","D","E","F","G","H","I","J","K","L","M",
           "N","O","P","Q","R","S","T","U","V","W","X","Y","Z">>

LOWER == <<"a","b","c","d","e","f","g","h","i","j","k","l","m",
           "n","o","p","q","r","s","t","u","v","w","x","y","z">>

\* String.prototype.toLowerCase, on the ASCII letters
ToLowerCase(str) ==
    [i \in 1..Len(str) |->
        IF \E k \in 1..26 : UPPER[k] = str[i]
        THEN LOWER[CHOOSE k \in 1..26 : UPPER[k] = str[i]]
        ELSE str[i]]

\* String.prototype.toUpperCase, on the ASCII letters
ToUpperCase(str) ==
    [i \in 1..Len(str) |->
        IF \E k \in 1..26 : LOWER[k] = str[i]
        THEN UPPER[CHOOSE k \in 1..26 : LOWER[k] = str[i]]
        ELSE str[i]]

\* String.prototype.trim
Trim(str) ==
    LET kept(i) == str[i] \notin WhiteSpace
    IN  IF \A i \in 1..Len(str) : ~kept(i) THEN <<>>
        ELSE LET lo == CHOOSE i \in 1..Len(str) :
                           kept(i) /\ \A j \in 1..(i - 1) : ~kept(j)
                 hi == CHOOSE i \in 1..Len(str) :
                           kept(i) /\ \A j \in (i + 1)..Len(str) : ~kept(j)
             IN  SubSeq(str, lo, hi)

\* String.prototype.includes
Includes(str, sub) ==
    \E i \in 1..(Len(str) - Len(sub) + 1) : SubSeq(str, i, i + Len(sub) - 1) = sub

\* positions of character c in str
Positions(str, c) == {i \in 1..Len(str) : str[i] = c}

(***************************************************************************)
(* JSON values of a request body field                                     *)
(***************************************************************************)
Str(v) == [t |-> "string", v |-> v]

Undefined == [t |-> "undefined", v |-> <<>>]

Num == [t |-> "number", v |-> <<>>]

IsString(x) == x.t = "string"

(***************************************************************************)
(* Utility functions                                                       *)
(***************************************************************************)
\* hashString: the SHA-256 digest in hex, as an injective one-way image of
\* its argument that is no string a client can send
hashString(str) == <<"sha256:">> \o str

\* extractDomain: split at '@', second part lower-cased, '' when there is none
extractDomain(email) ==
    LET ats == Positions(email, "@")
    IN  IF ats = {} THEN <<>>
        ELSE LET first == CHOOSE i \in ats : \A j \in ats : i <= j
                 later == {j \in ats : j > first}
                 stop  == IF later = {} THEN Len(email) + 1
                          ELSE CHOOSE i \in later : \A j \in later : i <= j
             IN  ToLowerCase(SubSeq(email, first + 1, stop - 1))

\* mutant of isValidEmail: any non-empty string passes
isValidEmail_Lax(email) == email # <<>>

\* isValidEmail: /^[^\s@]+@[^\s@]+\.[^\s@]+$/
isValidEmail(email) ==
    /\ \A i \in 1..Len(email) : email[i] \notin WhiteSpace
    /\ Cardinality(Positions(email, "@")) = 1
    /\ LET at == CHOOSE i \in Positions(email, "@") : TRUE
       IN  /\ at > 1
           /\ \E d \in Positions(email, ".") : at + 1 < d /\ d < Len(email)

isValidContextTag(tag) == tag \in VALID_CONTEXT_TAGS

(***************************************************************************)
(* validateRequest                                                         *)
(***************************************************************************)
\* a non-empty string after trim: typeof x === 'string' && x.trim()
NonBlankString(x) == IsString(x) /\ Trim(x.v) # <<>>

ReasonNotObject == "Request body must be a JSON object."

ReasonMessage == "Message is required and must be a non-empty string."

ReasonRecipient == "Recipient email is required."

ReasonContextTag == "Context tag is required."

ReasonSenderToken == "Sender token is required."

ReasonTooLong == "Message must be 2000 characters or less."

ReasonEmailFormat == "Invalid email address format."

ReasonInvalidTag == "Invalid context tag. Must be one of: ..."

\* mutant of ValidationFailure: each field is checked in full before the next
ValidationFailure_FieldByField(body) ==
    IF body.kind # "object" THEN ReasonNotObject
    ELSE IF ~NonBlankString(body.message) THEN ReasonMessage
    ELSE IF Len(body.message.v) > MAX_MESSAGE_LENGTH THEN ReasonTooLong
    ELSE IF ~NonBlankString(body.recipient_email) THEN ReasonRecipient
    ELSE IF ~isValidEmail(body.recipient_email.v) THEN ReasonEmailFormat
    ELSE IF ~NonBlankString(body.context_tag) THEN ReasonContextTag
    ELSE IF ~isValidContextTag(body.context_tag.v) THEN ReasonInvalidTag
    ELSE IF ~NonBlankString(body.sender_token) THEN ReasonSenderToken
    ELSE ""

\* the reason of the first failing check, "" when every check passes
ValidationFailure(body) ==
    IF body.kind # "object" THEN ReasonNotObject
    ELSE IF ~NonBlankString(body.message) THEN ReasonMessage
    ELSE IF ~NonBlankString(body.recipient_email) THEN ReasonRecipient
    ELSE IF ~NonBlankString(body.context_tag) THEN ReasonContextTag
    ELSE IF ~NonBlankString(body.sender_token) THEN ReasonSenderToken
    ELSE IF Len(body.message.v) > MAX_MESSAGE_LENGTH THEN ReasonTooLong
    ELSE IF ~isValidEmail(body.recipient_email.v) THEN ReasonEmailFormat
    ELSE IF ~isValidContextTag(body.context_tag.v) THEN ReasonInvalidTag
    ELSE ""

\* mutant of Normalized: the email is trimmed but not lower-cased
Normalized_KeepsCase(body) ==
    [ message         |-> Trim(body.message.v),
      recipient_email |-> Trim(body.recipient_email.v),
      context_tag     |-> body.context_tag.v,
      sender_token    |-> Trim(body.sender_token.v) ]

\* the normalized SendRequest of a body that passes every check
Normalized(body) ==
    [ message         |-> Trim(body.message.v),
      recipient_email |-> ToLowerCase(Trim(body.recipient_email.v)),
      context_tag     |-> body.context_tag.v,
      sender_token    |-> Trim(body.sender_token.v) ]

validateRequest(body) ==
    IF ValidationFailure(body) = ""
    THEN [valid |-> TRUE,  reason |-> "", data |-> Normalized(body)]
    ELSE [valid |-> FALSE, reason |-> ValidationFailure(body),
          data |-> [message |-> <<>>, recipient_email |-> <<>>,
                    context_tag |-> <<>>, sender_token |-> <<>>]]


(***************************************************************************)
(* Responses                                                               *)
(***************************************************************************)
\* a response's headers: a set of <<name, value>>
NoResponse == [status |-> 0, kind |-> "none", success |-> FALSE,
               error |-> "", reason |-> <<>>, headers |-> {}]

\* the headers jsonResponse sets
jsonHeaders ==
    { <<"Content-Type", "application/json">>,
      <<"Access-Control-Allow-Origin", "*">>,
      <<"Access-Control-Allow-Methods", "POST, OPTIONS">>,
      <<"Access-Control-Allow-Headers", "Content-Type">> }

\* the headers of the answer to a preflight
preflightHeaders ==
    { <<"Access-Control-Allow-Origin", "*">>,
      <<"Access-Control-Allow-Methods", "POST, OPTIONS">>,
      <<"Access-Control-Allow-Headers", "Content-Type">>,
      <<"Access-Control-Max-Age", "86400">> }

\* jsonResponse({ success: true })
successResponse == [status |-> 200, kind |-> "json", success |-> TRUE,
                    error |-> "", reason |-> <<>>, headers |-> jsonHeaders]

\* errorResponse(error, reason, status = 400)
errorResponse(error, reason, status) ==
    [status |-> status, kind |-> "json", success |-> FALSE,
     error |-> error, reason |-> reason, headers |-> jsonHeaders]

\* mutant of preflightResponse: the headers are left out
preflightResponse_NoHeaders ==
    [status |-> 204, kind |-> "empty", success |-> FALSE,
     error |-> "", reason |-> <<>>, headers |-> {}]

\* new Response(null, { status: 204, headers: CORS })
preflightResponse == [status |-> 204, kind |-> "empty", success |-> FALSE,
                      error |-> "", reason |-> <<>>,
                      headers |-> preflightHeaders]

\* new Response('Not Found', { status: 404 })
notFoundResponse == [status |-> 404, kind |-> "text", success |-> FALSE,
                     error |-> "", reason |-> <<"Not Found">>, headers |-> {}]

\* mutant of unhandledResponse: the status argument is left out (default 400)
unhandledResponse_DefaultStatus(message) ==
    errorResponse("server_error",
                  <<"An unexpected error occurred: ", message>>, 400)

\* the top-level catch: the caught error's message is put into the reason
unhandledResponse(message) ==
    errorResponse("server_error",
                  <<"An unexpected error occurred: ", message>>, 500)

\* mutant of rateLimitedResponse: the status argument is left out
rateLimitedResponse_DefaultStatus ==
    errorResponse("rate_limited",
        <<"You've sent too many messages today. Please try again tomorrow.">>, 400)

rateLimitedResponse ==
    errorResponse("rate_limited",
        <<"You've sent too many messages today. Please try again tomorrow.">>, 429)

messageRejectedResponse ==
    errorResponse("message_rejected",
        <<"This message doesn't appear to be expressing gratitude.">>, 400)

emailFailedResponse ==
    errorResponse("server_error",
        <<"Failed to send email. Please try again later.">>, 500)

\* what a step leaves for the end of the handler: the status logSend is
\* called with and the response returned after it
rateLimitedOutcome == [status |-> "rejected", resp |-> rateLimitedResponse]

messageRejectedOutcome == [status |-> "rejected", resp |-> messageRejectedResponse]

\* mutant of emailFailedOutcome: the failed delivery is logged as sent
emailFailedOutcome_LoggedSent == [status |-> "sent", resp |-> emailFailedResponse]

emailFailedOutcome == [status |-> "error", resp |-> emailFailedResponse]

sentOutcome == [status |-> "sent", resp |-> successResponse]

(***************************************************************************)
(* checkRateLimit: the decision and the three writes                       *)
(***************************************************************************)
\* mutant of WindowExpired: <= for <
WindowExpired_Inclusive(record, now) ==
    record.window_start <= now - RATE_LIMIT_WINDOW_HOURS

\* record.window_start < windowStartStr, windowStartStr = now - 24 h
WindowExpired(record, now) ==
    record.window_start < now - RATE_LIMIT_WINDOW_HOURS

\* mutant of UnderLimit: <= for <
UnderLimit_OffByOne(record) == record.send_count <= MAX_SENDS_PER_WINDOW

\* record.send_count < MAX_SENDS_PER_WINDOW
UnderLimit(record) == record.send_count < MAX_SENDS_PER_WINDOW

\* mutant of SelectRecord: the WHERE clause is lost
SelectRecord_AnyKey(table, senderHash) == table

\* SELECT send_count, window_start FROM rate_limits WHERE sender_hash = ?
SelectRecord(table, senderHash) == {r \in table : r.sender_hash = senderHash}

\* what checkRateLimit does after its SELECT returned `found` at time `now`
RateDecision(found, now) ==
    IF found = {} THEN "insert"
    ELSE LET record == CHOOSE r \in found : TRUE
         IN  IF WindowExpired(record, now) THEN "reset"
             ELSE IF UnderLimit(record) THEN "increment"
             ELSE "deny"

\* INSERT INTO rate_limits (sender_hash, send_count, window_start)
\*   VALUES (?, 1, datetime('now'))
InsertRecord(table, senderHash, now) ==
    table \cup {[sender_hash |-> senderHash, send_count |-> 1,
                 window_start |-> now]}

\* mutant of ResetRecord: the new window keeps the old count
ResetRecord_KeepsCount(table, senderHash, now) ==
    {IF r.sender_hash = senderHash
     THEN [r EXCEPT !.window_start = now]
     ELSE r : r \in table}

\* UPDATE rate_limits SET send_count = 1, window_start = datetime('now')
\*   WHERE sender_hash = ?
ResetRecord(table, senderHash, now) ==
    {IF r.sender_hash = senderHash
     THEN [r EXCEPT !.send_count = 1, !.window_start = now]
     ELSE r : r \in table}

\* UPDATE rate_limits SET send_count = send_count + 1 WHERE sender_hash = ?
IncrementRecord(table, senderHash) ==
    {IF r.sender_hash = senderHash
     THEN [r EXCEPT !.send_count = r.send_count + 1]
     ELSE r : r \in table}

(***************************************************************************)
(* filterMessage and sendEmail: the verdict on the external call's outcome *)
(***************************************************************************)
\* mutant of FilterContent: the text is not upper-cased
FilterContent_CaseSensitive(text) ==
    IF IsString(text) THEN Trim(text.v) ELSE <<>>

\* data.candidates?.[0]?.content?.parts?.[0]?.text?.trim().toUpperCase()
FilterContent(text) ==
    IF IsString(text) THEN ToUpperCase(Trim(text.v)) ELSE <<>>

REJECT == <<"R","E","J","E","C","T">>

\* mutant of filterMessage: the negation of the last line is lost
filterMessage_Negated(outcome) ==
    IF outcome.kind = "throw" THEN TRUE
    ELSE IF outcome.kind = "http_error" THEN TRUE
    ELSE IF outcome.kind = "unparseable" THEN TRUE
    ELSE IF FilterContent(outcome.text) = <<>> THEN TRUE
    ELSE Includes(FilterContent(outcome.text), REJECT)

\* true: the message is allowed
filterMessage(outcome) ==
    IF outcome.kind = "throw" THEN TRUE
    ELSE IF outcome.kind = "http_error" THEN TRUE
    ELSE IF outcome.kind = "unparseable" THEN TRUE
    ELSE IF FilterContent(outcome.text) = <<>> THEN TRUE
    ELSE ~Includes(FilterContent(outcome.text), REJECT)

\* mutant of sendEmail: the catch returns true
sendEmail_ThrowIsSuccess(outcome) == outcome # "http_error"

\* mutant of sendEmail: response.ok is not looked at
sendEmail_IgnoresStatus(outcome) == outcome # "throw"

\* true: the mail transport accepted the email
sendEmail(outcome) == outcome = "ok"

\* the entity of each character that escapeHtml replaces
htmlEscapes_BareAmpersand ==
    [c \in {"&", "<", ">", "\"", "'"} |->
        CASE c = "&"  -> <<"&">>
          [] c = "<"  -> <<"&", "l", "t", ";">>
          [] c = ">"  -> <<"&", "g", "t", ";">>
          [] c = "\"" -> <<"&", "q", "u", "o", "t", ";">>
          [] c = "'"  -> <<"&", "#", "3", "9", ";">>]

htmlEscapes ==
    [c \in {"&", "<", ">", "\"", "'"} |->
        CASE c = "&"  -> <<"&", "a", "m", "p", ";">>
          [] c = "<"  -> <<"&", "l", "t", ";">>
          [] c = ">"  -> <<"&", "g", "t", ";">>
          [] c = "\"" -> <<"&", "q", "u", "o", "t", ";">>
          [] c = "'"  -> <<"&", "#", "3", "9", ";">>]

\* text.replace(/[&<>"']/g, (char) => htmlEscapes[char])
RECURSIVE escapeHtml(_)
escapeHtml(text) ==
    IF text = <<>> THEN <<>>
    ELSE (IF Head(text) \in DOMAIN htmlEscapes
          THEN htmlEscapes[Head(text)] ELSE <<Head(text)>>)
         \o escapeHtml(Tail(text))

\* String.prototype.substring, for 0 <= from <= to
Substring(str, from, to) ==
    SubSeq(str, from + 1, IF to < Len(str) THEN to ELSE Len(str))

CONTEXT_TAG_DISPLAY_NAMES ==
    [tag \in VALID_CONTEXT_TAGS |->
        CASE tag = <<"f","o","r","m","e","r","-","s","t","u","d","e","n","t">>
                 -> <<"A former student">>
          [] tag = <<"f","o","r","m","e","r","-","t","e","a","c","h","e","r">>
                 -> <<"A former teacher">>
          [] tag = <<"o","l","d","-","f","r","i","e","n","d">>
                 -> <<"An old friend">>
          [] tag = <<"f","o","r","m","e","r","-","c","o","l","l","e","a","g","u","e">>
                 -> <<"A former colleague">>
          [] tag = <<"f","o","r","m","e","r","-","t","e","a","m","m","a","t","e">>
                 -> <<"A former teammate">>
          [] tag = <<"f","a","m","i","l","y","-","m","e","m","b","e","r">>
                 -> <<"A family member">>
          [] tag = <<"m","e","n","t","o","r">> -> <<"A mentor">>
          [] OTHER -> <<"Someone from your past">>]

\* the length of the message's beginning that filterMessage writes to the log
LoggedChars == 50

\* what leaves the handler, as a text: fixed text is one element, the text
\* of a variable is its characters
\* filterMessage: the prompt sent to the classifier
filterPrompt(message) ==
    <<"FILTER_SYSTEM_PROMPT", "\n\nMessage to evaluate:\n\"">> \o message \o <<"\"">>

\* filterMessage: the log line written once the classifier's answer is parsed
filterLogLine(content, message) ==
    <<"Gemini filter response:">> \o content \o <<"for message:">>
        \o Substring(message, 0, LoggedChars)

\* sendEmail: the two bodies of the email
plainTextBody(contextTag, message) ==
    <<"From: ">> \o CONTEXT_TAG_DISPLAY_NAMES[contextTag] \o <<"\n\n">>
        \o message \o <<"\n\n---\n\nThis message was sent anonymously ...">>

htmlBody(contextTag, message) ==
    <<"<!DOCTYPE html> ... From: <strong>">>
        \o CONTEXT_TAG_DISPLAY_NAMES[contextTag]
        \o <<"</strong></p> ... <p style=\"margin: 0; white-space: pre-wrap;\">">>
        \o escapeHtml(message) \o <<"</p> ... </html>">>

\* sendEmail: the request sent to the mail transport
emailPayload(recipientEmail, contextTag, message) ==
    [ from    |-> <<"Still Grateful <hello@stillgrateful.app>">>,
      to      |-> recipientEmail,
      subject |-> <<"Someone is grateful for you">>,
      text    |-> plainTextBody(contextTag, message),
      html    |-> htmlBody(contextTag, message) ]

\* the row logSend binds: (sender_hash, recipient_domain, context_tag, status);
\* id and created_at are filled by their defaults
SendRow(senderHash, recipientDomain, contextTag, status) ==
    [sender_hash |-> senderHash, recipient_domain |-> recipientDomain,
     context_tag |-> contextTag, status |-> status]


(***************************************************************************)
(* Inputs of the model: requests and outcomes of the external calls        *)
(***************************************************************************)
TokenA == <<"t","A">>

TokenB == <<"t","B">>

MessageHi == <<" ","h","i","<","3">>

EmailAb == <<"a","@","B",".","c">>

TagMentor == <<"m","e","n","t","o","r">>

ObjectBody(message, email, tag, token) ==
    [kind |-> "object", message |-> message, recipient_email |-> email,
     context_tag |-> tag, sender_token |-> token]

\* a body request.json() throws on
InvalidJsonBody ==
    [kind |-> "invalid_json", message |-> Undefined, recipient_email |-> Undefined,
     context_tag |-> Undefined, sender_token |-> Undefined]

\* JSON that is no object: null, a number, a string
NotObjectBody ==
    [kind |-> "not_object", message |-> Undefined, recipient_email |-> Undefined,
     context_tag |-> Undefined, sender_token |-> Undefined]

ValidBody(token) ==
    ObjectBody(Str(MessageHi), Str(EmailAb), Str(TagMentor), Str(token))

InvalidBodies ==
    { InvalidJsonBody,
      NotObjectBody,
      ObjectBody(Num, Str(EmailAb), Str(TagMentor), Str(TokenA)),
      ObjectBody(Str(MessageHi), Str(<<"n","o","t","-","a","n">>),
                 Str(TagMentor), Str(TokenA)),
      ObjectBody(Str(MessageHi), Str(EmailAb), Str(<<"p","a","l">>), Str(TokenA)),
      ObjectBody(Str(MessageHi), Str(EmailAb), Str(TagMentor), Str(<<" ">>)) }

Tokens == {TokenA, TokenB}

Hashes == {hashString(t) : t \in Tokens}

Request(method, path, body) == [method |-> method, path |-> path, body |-> body]

NoRequest == Request("", "", InvalidJsonBody)

\* requests that never reach the body
UnroutedRequests ==
    { Request("OPTIONS", "/send", InvalidJsonBody),
      Request("OPTIONS", "/other", InvalidJsonBody),
      Request("GET", "/send", InvalidJsonBody),
      Request("POST", "/other", ValidBody(TokenA)) }

SendRequests(tokens) ==
    {Request("POST", "/send", b) : b \in InvalidBodies \cup {ValidBody(t) : t \in tokens}}

\* what the classifier call comes back with
ClassifierOutcomes ==
    { [kind |-> "throw", text |-> Undefined],
      [kind |-> "http_error", text |-> Undefined],
      [kind |-> "ok", text |-> Undefined],
      [kind |-> "ok", text |-> Str(<<"A","L","L","O","W">>)],
      [kind |-> "ok", text |-> Str(<<"R","E","J","E","C","T">>)],
      [kind |-> "ok", text |-> Str(<<" ","r","e","j","e","c","t","."," ">>)] }

\* the classifier's answer, as far as the claims tell answers apart: the call
\* failed, it succeeded with a text that contains REJECT, or anything else
Answer(outcome) ==
    IF outcome.kind \in {"throw", "http_error"} THEN "failed"
    ELSE IF IsString(outcome.text) /\ Includes(outcome.text.v, REJECT) THEN "reject"
    ELSE "other"

\* what the mail transport call comes back with
MailOutcomes == {"ok", "http_error", "throw"}

\* the mail transport's answer: it accepted the email or the call failed
Delivery(outcome) == IF outcome = "ok" THEN "accepted" ELSE "failed"

NoData == [message |-> <<>>, recipient_email |-> <<>>, context_tag |-> <<>>,
           sender_token |-> <<>>, senderHash |-> <<>>, recipientDomain |-> <<>>]

NoPending == [status |-> "", resp |-> NoResponse]

NoWindow == [start |-> 0, n |-> 0]

\* the requests of SpecSeq
SeqRequests == UnroutedRequests \cup SendRequests({TokenA})

\* the requests of Spec
ConcRequests == UnroutedRequests \cup SendRequests(Tokens)

\* no function is called on its own
NoInput == [fn |-> "", arg |-> <<>>]

NoOutput == [done |-> FALSE, val |-> <<>>]

(***************************************************************************)
(* State                                                                   *)
(***************************************************************************)
VARIABLES
    clock,        \* now, in hours
    rate_limits,  \* table rate_limits: a set of rows
    sends,        \* table sends: rows in insertion order (id = position)
    pc,           \* per slot: where the handler of the slot's request stands
    req,          \* per slot: the request
    data,         \* per slot: validation.data, senderHash, recipientDomain
    record,       \* per slot: what checkRateLimit's SELECT returned
    pending,      \* per slot: the status to log and the response to return
    resp,         \* per slot: the response returned
    did,          \* per slot: the calls the request has made, in order
    added,        \* per slot: rows the request has added to sends
    sawFull,      \* per slot: the cap was used up when the rate check read
    window,       \* per identifier: start of the running window and the
                  \*   number of rate checks passed in it
    nreq,         \* requests received so far
    serial,       \* the runtime hands over requests one at a time
    input,        \* a function called on its own: its name and argument
    output        \* a function called on its own: whether it returned, what

vars == <<clock, rate_limits, sends, pc, req, data, record, pending, resp, did,
          added, sawFull, window, nreq, serial, input, output>>

Call(op, arg, ok) == [op |-> op, arg |-> arg, ok |-> ok]

Ops(s) == {did[s][i].op : i \in 1..Len(did[s])}

\* positions in the calls of slot s of the calls of `op`
CallsOf(s, op) == {i \in 1..Len(did[s]) : did[s][i].op = op}

\* a rate check of `senderHash` passes at time `now`: a window that is over
\* (or none) is replaced by a new one, a running one counts one more
Passed(w, now) ==
    IF w.n = 0 \/ now > w.start + RATE_LIMIT_WINDOW_HOURS
    THEN [start |-> now, n |-> 1]
    ELSE [w EXCEPT !.n = w.n + 1]

\* the cap is used up at time `now`: 5 checks passed in the running window
CapUsedUp(w, now) ==
    /\ w.n >= MAX_SENDS_PER_WINDOW
    /\ now <= w.start + RATE_LIMIT_WINDOW_HOURS

TypeOK ==
    /\ clock \in 0..(MaxTicks * TickHours)
    /\ pc \in [Slots -> {"idle", "rate_read", "rl_insert", "rl_reset",
                         "rl_increment", "filter", "email", "log", "done"}]
    /\ Len(sends) <= MaxLog
    /\ nreq \in 0..MaxSeqRequests
    /\ \A r \in rate_limits : r.sender_hash \in Hashes /\ r.send_count >= 1

EmptySlots ==
    /\ pc = [s \in Slots |-> "idle"]
    /\ req = [s \in Slots |-> NoRequest]
    /\ data = [s \in Slots |-> NoData]
    /\ record = [s \in Slots |-> {}]
    /\ pending = [s \in Slots |-> NoPending]
    /\ resp = [s \in Slots |-> NoResponse]
    /\ did = [s \in Slots |-> <<>>]
    /\ added = [s \in Slots |-> 0]
    /\ sawFull = [s \in Slots |-> FALSE]

\* the tables as the migration leaves them
InitEmpty ==
    /\ serial = TRUE
    /\ clock = 0
    /\ rate_limits = {}
    /\ sends = <<>>
    /\ window = [h \in Hashes |-> NoWindow]
    /\ nreq = 0
    /\ EmptySlots
    /\ input = NoInput
    /\ output = NoOutput


(***************************************************************************)
(* The handler, fetch(request, env, ctx), one action per step.  The first  *)
(* step runs from the invocation to the first await on the store: routing, *)
(* request.json(), validateRequest, hashString, extractDomain.             *)
(***************************************************************************)
\* the requests of a behaviour, their number and the rows table sends takes
\* before every further insert fails
Requests == IF serial THEN SeqRequests ELSE ConcRequests

RequestBound == IF serial THEN MaxSeqRequests ELSE MaxRequests

LogBound == IF serial THEN MaxLog ELSE MaxConcLog

\* the handler returns `response` from slot s
Return(s, response) ==
    /\ pc' = [pc EXCEPT ![s] = "done"]
    /\ resp' = [resp EXCEPT ![s] = response]

\* the runtime invokes fetch(request) in the free slot s
Invoke(s, request) ==
    /\ pc[s] = "idle"
    /\ request \in Requests
    /\ nreq < RequestBound
    /\ serial => s = 1 /\ \A t \in Slots : pc[t] = "idle"
    /\ req' = [req EXCEPT ![s] = request]
    /\ nreq' = nreq + 1

\* if (request.method === 'OPTIONS') return 204
Preflight(s, request) ==
    /\ Invoke(s, request)
    /\ request.method = "OPTIONS"
    /\ Return(s, preflightResponse)
    /\ UNCHANGED <<clock, rate_limits, sends, data, record, pending, did,
                   added, sawFull, window, serial, input, output>>

\* mutant of Routed: the path is not looked at
Routed_MethodOnly(request) == request.method = "POST"

\* request.method === 'POST' && url.pathname === '/send'
Routed(request) == request.method = "POST" /\ request.path = "/send"

\* if (request.method !== 'POST' || url.pathname !== '/send') return 404
NotFound(s, request) ==
    /\ Invoke(s, request)
    /\ request.method # "OPTIONS"
    /\ ~Routed(request)
    /\ Return(s, notFoundResponse)
    /\ UNCHANGED <<clock, rate_limits, sends, data, record, pending, did,
                   added, sawFull, window, serial, input, output>>

\* request.json() throws: 400 validation_error
InvalidJson(s, request) ==
    /\ Invoke(s, request)
    /\ request.method # "OPTIONS"
    /\ Routed(request)
    /\ request.body.kind = "invalid_json"
    /\ Return(s, errorResponse("validation_error",
                               <<"Invalid JSON in request body.">>, 400))
    /\ UNCHANGED <<clock, rate_limits, sends, data, record, pending, did,
                   added, sawFull, window, serial, input, output>>

\* Step 1, validation.valid is false: 400 validation_error
ValidationFails(s, request) ==
    /\ Invoke(s, request)
    /\ request.method # "OPTIONS"
    /\ Routed(request)
    /\ request.body.kind # "invalid_json"
    /\ ~validateRequest(request.body).valid
    /\ Return(s, errorResponse("validation_error",
                               <<validateRequest(request.body).reason>>, 400))
    /\ UNCHANGED <<clock, rate_limits, sends, data, record, pending, did,
                   added, sawFull, window, serial, input, output>>

\* Step 1, validation.valid is true: senderHash and recipientDomain are derived
Validated(s, request) ==
    /\ Invoke(s, request)
    /\ request.method # "OPTIONS"
    /\ Routed(request)
    /\ request.body.kind # "invalid_json"
    /\ validateRequest(request.body).valid
    /\ LET d == validateRequest(request.body).data
       IN  data' = [data EXCEPT ![s] =
                [message |-> d.message, recipient_email |-> d.recipient_email,
                 context_tag |-> d.context_tag, sender_token |-> d.sender_token,
                 senderHash |-> hashString(d.sender_token),
                 recipientDomain |-> extractDomain(d.recipient_email)]]
    /\ pc' = [pc EXCEPT ![s] = "rate_read"]
    /\ UNCHANGED <<clock, rate_limits, sends, record, pending, resp, did,
                   added, sawFull, window, serial, input, output>>

\* Step 2, checkRateLimit: the SELECT and the decision taken on its result.
\* A denial returns false at once; logSend is awaited next.
RateRead(s) ==
    /\ pc[s] = "rate_read"
    /\ LET h        == data[s].senderHash
           decision == RateDecision(SelectRecord(rate_limits, h), clock)
       IN  /\ record' = [record EXCEPT ![s] = SelectRecord(rate_limits, h)]
           /\ sawFull' = [sawFull EXCEPT ![s] = CapUsedUp(window[h], clock)]
           /\ did' = [did EXCEPT ![s] = Append(@, Call("rate_read", decision, TRUE))]
           /\ IF decision = "deny"
              THEN /\ pc' = [pc EXCEPT ![s] = "log"]
                   /\ pending' = [pending EXCEPT ![s] = rateLimitedOutcome]
              ELSE /\ pc' = [pc EXCEPT ![s] =
                           CASE decision = "insert"    -> "rl_insert"
                             [] decision = "reset"     -> "rl_reset"
                             [] decision = "increment" -> "rl_increment"]
                   /\ UNCHANGED pending
    /\ UNCHANGED <<clock, rate_limits, sends, req, data, resp, added, window,
                   nreq, serial, input, output>>

\* mutant of RateWritten: the increment moves window_start to now
RateWritten_Slides(table, at, senderHash, now) ==
    CASE at = "rl_insert"    -> InsertRecord(table, senderHash, now)
      [] at = "rl_reset"     -> ResetRecord(table, senderHash, now)
      [] at = "rl_increment" ->
            {IF r.sender_hash = senderHash
             THEN [r EXCEPT !.send_count = r.send_count + 1,
                            !.window_start = now]
             ELSE r : r \in table}

\* the table after the write checkRateLimit decided on
RateWritten(table, at, senderHash, now) ==
    CASE at = "rl_insert"    -> InsertRecord(table, senderHash, now)
      [] at = "rl_reset"     -> ResetRecord(table, senderHash, now)
      [] at = "rl_increment" -> IncrementRecord(table, senderHash)

\* the INSERT violates the primary key of rate_limits: a row of the
\* identifier was inserted since the SELECT
KeyConflict(s) ==
    /\ pc[s] = "rl_insert"
    /\ SelectRecord(rate_limits, data[s].senderHash) # {}

\* Step 2, checkRateLimit: the INSERT or UPDATE runs and true is returned
RateWrite(s) ==
    /\ pc[s] \in {"rl_insert", "rl_reset", "rl_increment"}
    /\ ~KeyConflict(s)
    /\ rate_limits' = RateWritten(rate_limits, pc[s], data[s].senderHash, clock)
    /\ window' = [window EXCEPT ![data[s].senderHash] = Passed(@, clock)]
    /\ did' = [did EXCEPT ![s] = Append(@, Call("rate_write", pc[s], TRUE))]
    /\ pc' = [pc EXCEPT ![s] = "filter"]
    /\ UNCHANGED <<clock, sends, req, data, record, pending, resp, added,
                   sawFull, nreq, serial, input, output>>

\* Step 2, the INSERT throws on the primary key: the top-level catch answers
RateInsertConflict(s) ==
    /\ KeyConflict(s)
    /\ did' = [did EXCEPT ![s] = Append(@, Call("rate_write", pc[s], FALSE))]
    /\ Return(s, unhandledResponse(
                    "UNIQUE constraint failed: rate_limits.sender_hash"))
    /\ UNCHANGED <<clock, rate_limits, sends, req, data, record, pending,
                   added, sawFull, window, nreq, serial, input, output>>

\* mutant of RateStoreThrows: a failed write of the record is caught and the
\* rate check is run again
RateStoreThrows_Retries(s) ==
    /\ pc[s] \in {"rate_read", "rl_insert", "rl_reset", "rl_increment"}
    /\ IF pc[s] = "rate_read"
       THEN /\ did' = [did EXCEPT ![s] =
                         Append(@, Call("rate_read", "throw", FALSE))]
            /\ sawFull' = [sawFull EXCEPT ![s] =
                              CapUsedUp(window[data[s].senderHash], clock)]
            /\ Return(s, unhandledResponse("D1_ERROR"))
       ELSE /\ pc' = [pc EXCEPT ![s] = "rate_read"]
            /\ did' = [did EXCEPT ![s] = <<>>]
            /\ UNCHANGED <<sawFull, resp>>
    /\ UNCHANGED <<clock, rate_limits, sends, req, data, record, pending,
                   added, window, nreq, serial, input, output>>

\* Step 2, the store fails the SELECT, the INSERT or the UPDATE: the
\* exception leaves checkRateLimit and the top-level catch answers
RateStoreThrows(s) ==
    /\ pc[s] \in {"rate_read", "rl_insert", "rl_reset", "rl_increment"}
    /\ did' = [did EXCEPT ![s] =
                  Append(@, Call(IF pc[s] = "rate_read" THEN "rate_read"
                                 ELSE "rate_write", "throw", FALSE))]
    /\ sawFull' = [sawFull EXCEPT ![s] =
                      IF pc[s] = "rate_read"
                      THEN CapUsedUp(window[data[s].senderHash], clock) ELSE @]
    /\ Return(s, unhandledResponse("D1_ERROR"))
    /\ UNCHANGED <<clock, rate_limits, sends, req, data, record, pending,
                   added, window, nreq, serial, input, output>>

\* mutant of Filter: a rejection gives the request's rate-limit slot back
Filter_Refunds(s, outcome) ==
    /\ pc[s] = "filter"
    /\ did' = [did EXCEPT ![s] = Append(@, Call("filter", Answer(outcome),
                                               filterMessage(outcome)))]
    /\ IF filterMessage(outcome)
       THEN /\ pc' = [pc EXCEPT ![s] = "email"]
            /\ UNCHANGED <<pending, rate_limits>>
       ELSE /\ pc' = [pc EXCEPT ![s] = "log"]
            /\ pending' = [pending EXCEPT ![s] = messageRejectedOutcome]
            /\ rate_limits' =
                  { IF row.sender_hash = data[s].senderHash
                    THEN [row EXCEPT !.send_count = @ - 1] ELSE row :
                    row \in rate_limits }
    /\ UNCHANGED <<clock, sends, req, data, record, resp, added,
                   sawFull, window, nreq, serial, input, output>>

\* Step 3, filterMessage: one call of the classifier, which ends in `outcome`
Filter(s, outcome) ==
    /\ pc[s] = "filter"
    /\ did' = [did EXCEPT ![s] = Append(@, Call("filter", Answer(outcome),
                                               filterMessage(outcome)))]
    /\ IF filterMessage(outcome)
       THEN /\ pc' = [pc EXCEPT ![s] = "email"]
            /\ UNCHANGED pending
       ELSE /\ pc' = [pc EXCEPT ![s] = "log"]
            /\ pending' = [pending EXCEPT ![s] = messageRejectedOutcome]
    /\ UNCHANGED <<clock, rate_limits, sends, req, data, record, resp, added,
                   sawFull, window, nreq, serial, input, output>>

\* mutant of SendEmail: a failed submission is tried once more
SendEmail_Retries(s, outcome) ==
    /\ pc[s] = "email"
    /\ did' = [did EXCEPT ![s] = Append(@, Call("email", Delivery(outcome),
                                               sendEmail(outcome)))]
    /\ pc' = [pc EXCEPT ![s] =
                 IF sendEmail(outcome) \/ CallsOf(s, "email") # {}
                 THEN "log" ELSE "email"]
    /\ pending' = [pending EXCEPT ![s] =
           IF sendEmail(outcome) THEN sentOutcome ELSE emailFailedOutcome]
    /\ UNCHANGED <<clock, rate_limits, sends, req, data, record, resp, added,
                   sawFull, window, nreq, serial, input, output>>

\* Step 4, sendEmail: one call of the mail transport, which ends in `outcome`
SendEmail(s, outcome) ==
    /\ pc[s] = "email"
    /\ did' = [did EXCEPT ![s] = Append(@, Call("email", Delivery(outcome),
                                               sendEmail(outcome)))]
    /\ pc' = [pc EXCEPT ![s] = "log"]
    /\ pending' = [pending EXCEPT ![s] =
           IF sendEmail(outcome) THEN sentOutcome ELSE emailFailedOutcome]
    /\ UNCHANGED <<clock, rate_limits, sends, req, data, record, resp, added,
                   sawFull, window, nreq, serial, input, output>>

\* mutant of Logged: the full recipient address is bound for the domain
Logged_FullAddress(table, s, stored) ==
    IF stored
    THEN Append(table, SendRow(data[s].senderHash, data[s].recipient_email,
                               data[s].context_tag, pending[s].status))
    ELSE table

\* mutant of Logged: the row replaces the last row of the table
Logged_Overwrites(table, s, stored) ==
    IF stored /\ table # <<>>
    THEN [table EXCEPT ![Len(table)] =
              SendRow(data[s].senderHash, data[s].recipientDomain,
                      data[s].context_tag, pending[s].status)]
    ELSE IF stored
    THEN <<SendRow(data[s].senderHash, data[s].recipientDomain,
                   data[s].context_tag, pending[s].status)>>
    ELSE table

\* mutant of Logged: the row is inserted twice
Logged_Twice(table, s, stored) ==
    IF stored
    THEN table \o << SendRow(data[s].senderHash, data[s].recipientDomain,
                             data[s].context_tag, pending[s].status),
                     SendRow(data[s].senderHash, data[s].recipientDomain,
                             data[s].context_tag, pending[s].status) >>
    ELSE table

\* table sends after logSend's INSERT, which the store accepts (stored) or
\* fails; the failure is caught inside logSend
Logged(table, s, stored) ==
    IF stored
    THEN Append(table, SendRow(data[s].senderHash, data[s].recipientDomain,
                               data[s].context_tag, pending[s].status))
    ELSE table

\* mutant of Responded: logSend lets the failure of its INSERT through
Responded_Rethrows(s, stored) ==
    IF stored THEN pending[s].resp ELSE unhandledResponse("D1_ERROR")

\* what the handler returns after logSend: logSend catches the failure of its
\* INSERT, so the response decided before the call is returned either way
Responded(s, stored) == pending[s].resp

\* mutant of LogSend: the return after the audit write of a rejection is lost
\* and the handler goes on to the next step
LogSend_FallsThrough(s, stored) ==
    /\ pc[s] = "log"
    /\ stored => Len(sends) < LogBound
    /\ sends' = Logged(sends, s, stored)
    /\ added' = [added EXCEPT ![s] = @ + Len(sends') - Len(sends)]
    /\ did' = [did EXCEPT ![s] = Append(@, Call("log", pending[s].status, stored))]
    /\ IF pending[s].status = "rejected"
       THEN pc' = [pc EXCEPT ![s] = "email"] /\ UNCHANGED resp
       ELSE Return(s, Responded(s, stored))
    /\ UNCHANGED <<clock, rate_limits, req, data, record, pending, sawFull,
                   window, nreq, serial, input, output>>

\* Steps 5 and 6, logSend and the return of the response decided before it
LogSend(s, stored) ==
    /\ pc[s] = "log"
    /\ stored => Len(sends) < LogBound
    /\ sends' = Logged(sends, s, stored)
    /\ added' = [added EXCEPT ![s] = @ + Len(sends') - Len(sends)]
    /\ did' = [did EXCEPT ![s] = Append(@, Call("log", pending[s].status, stored))]
    /\ Return(s, Responded(s, stored))
    /\ UNCHANGED <<clock, rate_limits, req, data, record, pending, sawFull,
                   window, nreq, serial, input, output>>

\* the response has gone out and the slot is free again
Finish(s) ==
    /\ pc[s] = "done"
    /\ pc' = [pc EXCEPT ![s] = "idle"]
    /\ req' = [req EXCEPT ![s] = NoRequest]
    /\ data' = [data EXCEPT ![s] = NoData]
    /\ record' = [record EXCEPT ![s] = {}]
    /\ pending' = [pending EXCEPT ![s] = NoPending]
    /\ resp' = [resp EXCEPT ![s] = NoResponse]
    /\ did' = [did EXCEPT ![s] = <<>>]
    /\ added' = [added EXCEPT ![s] = 0]
    /\ sawFull' = [sawFull EXCEPT ![s] = FALSE]
    /\ UNCHANGED <<clock, rate_limits, sends, window, nreq, serial, input,
                   output>>

\* time passes; a rate check's SELECT and its write fall into one clock unit
Tick ==
    /\ clock + TickHours <= MaxTicks * TickHours
    /\ \A s \in Slots : pc[s] \notin {"rl_insert", "rl_reset", "rl_increment"}
    /\ clock' = clock + TickHours
    /\ UNCHANGED <<rate_limits, sends, pc, req, data, record, pending, resp,
                   did, added, sawFull, window, nreq, serial, input, output>>

\* the first step of the handler, on `request` in slot s
Arrive(s, request) ==
    \/ Preflight(s, request)
    \/ NotFound(s, request)
    \/ InvalidJson(s, request)
    \/ ValidationFails(s, request)
    \/ Validated(s, request)

\* a later step of the handler in slot s, but for a conflicting INSERT
Step(s) ==
    \/ RateRead(s)
    \/ RateWrite(s)
    \/ RateStoreThrows(s)
    \/ \E o \in ClassifierOutcomes : Filter(s, o)
    \/ \E o \in MailOutcomes : SendEmail(s, o)
    \/ \E stored \in BOOLEAN : LogSend(s, stored)
    \/ Finish(s)

(***************************************************************************)
(* SpecSeq: requests one at a time, from the empty tables                  *)
(***************************************************************************)
NextSeq ==
    \/ \E s \in Slots : \E r \in SeqRequests : Arrive(s, r)
    \/ Tick
    \/ \E s \in Slots : Step(s)

SpecSeq == InitEmpty /\ [][NextSeq]_vars

(***************************************************************************)
(* SpecRefused: as SpecSeq, with a mail transport that accepts no email:   *)
(* every request that passes the rate check is rejected by the filter or   *)
(* fails at delivery                                                       *)
(***************************************************************************)
RefusingMailOutcomes == MailOutcomes \ {"ok"}

StepRefused(s) ==
    \/ RateRead(s)
    \/ RateWrite(s)
    \/ RateStoreThrows(s)
    \/ \E o \in ClassifierOutcomes : Filter(s, o)
    \/ \E o \in RefusingMailOutcomes : SendEmail(s, o)
    \/ \E stored \in BOOLEAN : LogSend(s, stored)
    \/ Finish(s)

NextRefused ==
    \/ \E s \in Slots : \E r \in SeqRequests : Arrive(s, r)
    \/ Tick
    \/ \E s \in Slots : StepRefused(s)

SpecRefused == InitEmpty /\ [][NextRefused]_vars

(***************************************************************************)
(* Spec: requests in concurrent slots, from tables that earlier requests   *)
(* of TokenA have left: no record, or a record of the window that started  *)
(* at hour 0 (the audit rows of those requests were lost)                  *)
(***************************************************************************)
Init ==
    /\ serial = FALSE
    /\ clock = 0
    /\ \E c \in 0..MAX_SENDS_PER_WINDOW :
          /\ rate_limits = IF c = 0 THEN {}
                           ELSE {[sender_hash |-> hashString(TokenA),
                                  send_count |-> c, window_start |-> 0]}
          /\ window = [h \in Hashes |->
                          IF h = hashString(TokenA) /\ c > 0
                          THEN [start |-> 0, n |-> c] ELSE NoWindow]
    /\ sends = <<>>
    /\ nreq = 0
    /\ EmptySlots
    /\ input = NoInput
    /\ output = NoOutput

Next ==
    \/ \E s \in Slots : \E r \in ConcRequests : Arrive(s, r)
    \/ Tick
    \/ \E s \in Slots : Step(s)
    \/ \E s \in Slots : RateInsertConflict(s)

Spec == Init /\ [][Next]_vars

(***************************************************************************)
(* FairSpec: every call of the store, the classifier and the mail          *)
(* transport returns or fails, so an invocation that has started takes     *)
(* its next step; no request has to arrive and no time has to pass         *)
(***************************************************************************)
Proceed(s) == Step(s) \/ RateInsertConflict(s)

FairSpecSeq == SpecSeq /\ \A s \in Slots : WF_vars(Step(s))

FairSpec == Spec /\ \A s \in Slots : WF_vars(Proceed(s))


(***************************************************************************)
(* SpecPure: a function of the handler called on its own, on an argument   *)
(* drawn from a set of inputs                                              *)
(***************************************************************************)
\* a string of n characters
Chars(n) == [i \in 1..n |-> "x"]

\* field values of a body: absent, of another type, blank, padded, too long
MessageValues ==
    { Undefined, Num, Str(<<>>), Str(<<" ">>), Str(MessageHi),
      Str(Chars(MAX_MESSAGE_LENGTH)), Str(Chars(MAX_MESSAGE_LENGTH + 1)),
      Str(Chars(MAX_MESSAGE_LENGTH) \o <<" ">>) }

EmailValues ==
    { Undefined, Str(<<" ">>), Str(<<"n","o","t","-","a","n">>), Str(EmailAb),
      Str(<<" ">> \o EmailAb), Str(<<"a","@","b">>) }

TagValues ==
    { Undefined, Str(<<" ">>), Str(<<"p","a","l">>), Str(TagMentor),
      Str(TagMentor \o <<" ">>) }

TokenValues ==
    { Undefined, Num, Str(<<" ">>), Str(TokenA), Str(<<" ">> \o TokenA \o <<"\n">>) }

ValidateBodies ==
    { NotObjectBody } \cup
    { ObjectBody(m, e, t, k) :
        m \in MessageValues, e \in EmailValues, t \in TagValues, k \in TokenValues }

\* texts of the classifier's first candidate: a verdict word in some case,
\* with something before and after it
VerdictWords ==
    { <<>>, REJECT, <<"r","e","j","e","c","t">>, <<"R","e","j","e","c","t">>,
      <<"R","E","J","E","C">>, <<"R","E","J"," ","E","C","T">>,
      <<"A","L","L","O","W">> }

Before == { <<>>, <<" ">>, <<"x">>, <<"\n">> }

After == { <<>>, <<".">>, <<"E","D">>, <<" ">> }

ClassifierResponses ==
    { [kind |-> "throw", text |-> Undefined],
      [kind |-> "http_error", text |-> Undefined],
      [kind |-> "unparseable", text |-> Undefined],
      [kind |-> "ok", text |-> Undefined],
      [kind |-> "ok", text |-> Num] } \cup
    { [kind |-> "ok", text |-> Str(b \o w \o a)] :
        b \in Before, w \in VerdictWords, a \in After }

\* messages given to escapeHtml: every string of at most MaxEscLen characters
MaxEscLen == 3

EscAlphabet == {"&", "<", ">", "\"", "'", "a", ";", "#"}

EscTexts == UNION { [1..n -> EscAlphabet] : n \in 0..MaxEscLen }

PureInputs ==
    { [fn |-> "validateRequest", arg |-> b] : b \in ValidateBodies } \cup
    { [fn |-> "filterMessage", arg |-> o] : o \in ClassifierResponses } \cup
    { [fn |-> "escapeHtml", arg |-> t] : t \in EscTexts }

InitPure ==
    /\ serial = TRUE
    /\ clock = 0
    /\ rate_limits = {}
    /\ sends = <<>>
    /\ window = [h \in Hashes |-> NoWindow]
    /\ nreq = 0
    /\ EmptySlots
    /\ input \in PureInputs
    /\ output = NoOutput

\* the function returns `val`
Returns(val) ==
    /\ ~output.done
    /\ output' = [done |-> TRUE, val |-> val]
    /\ UNCHANGED <<clock, rate_limits, sends, pc, req, data, record, pending,
                   resp, did, added, sawFull, window, nreq, serial, input>>

CallValidateRequest ==
    /\ input.fn = "validateRequest"
    /\ Returns(validateRequest(input.arg))

CallFilterMessage ==
    /\ input.fn = "filterMessage"
    /\ Returns(filterMessage(input.arg))

CallEscapeHtml ==
    /\ input.fn = "escapeHtml"
    /\ Returns(escapeHtml(input.arg))

NextPure ==
    \/ CallValidateRequest
    \/ CallFilterMessage
    \/ CallEscapeHtml

SpecPure == InitPure /\ [][NextPure]_vars

(***************************************************************************)
(* Properties                                                              *)
(***************************************************************************)
\* the request of slot s is a POST /send
IsSend(s) == req[s].method = "POST" /\ req[s].path = "/send"

\* the row of table sends that belongs to the request of slot s
RowOf(s, status) ==
    SendRow(hashString(Trim(req[s].body.sender_token.v)),
            extractDomain(ToLowerCase(Trim(req[s].body.recipient_email.v))),
            req[s].body.context_tag.v, status)

\* the request of slot s made exactly one audit write, of `status`; it added
\* one row of that status if the store took the insert and none if not
LoggedOnce(s, status) ==
    /\ Cardinality(CallsOf(s, "log")) = 1
    /\ \A i \in CallsOf(s, "log") :
          /\ did[s][i].arg = status
          /\ added[s] = (IF did[s][i].ok THEN 1 ELSE 0)
          /\ did[s][i].ok => \E k \in 1..Len(sends) : sends[k] = RowOf(s, status)

IsError(response, status, error) ==
    /\ response.status = status
    /\ response.kind = "json"
    /\ response.success = FALSE
    /\ response.error = error

\* C1: requests of one token handled one at a time: once 5 of them have
\* passed the rate check in the running 24-hour window, a further request of
\* the window calls neither the classifier nor the mail transport, and it is
\* answered 429 rate_limited whenever the store answers its SELECT.
C1_Theorem ==
    \A s \in Slots :
        sawFull[s] =>
            /\ CallsOf(s, "filter") = {}
            /\ CallsOf(s, "email") = {}
            /\ pc[s] \in {"log", "done"}
            /\ (pc[s] = "done" /\ did[s][1].ok) =>
                   IsError(resp[s], 429, "rate_limited")

C1_Witness ==
    \E s \in Slots :
        /\ pc[s] = "done"
        /\ sawFull[s]
        /\ window[data[s].senderHash].n = MAX_SENDS_PER_WINDOW
        /\ resp[s].status = 429

\* C2: under every interleaving at most 5 requests of one identifier pass
\* the rate check in one window.
C2_Claim == \A h \in Hashes : window[h].n <= MAX_SENDS_PER_WINDOW

\* C3: a rate check that finds the identifier's record with a window_start
\* more than 24 hours back decides on the reset, and the reset (unless the
\* store fails it) leaves the record at send_count 1 and window_start now and
\* lets the request go on to the filter, whatever send_count was.
C3_Theorem ==
    [][\A s \in Slots :
          LET h     == data[s].senderHash
              found == SelectRecord(rate_limits, h)
          IN  /\ ( /\ pc[s] = "rate_read"
                   /\ pc'[s] \notin {"rate_read", "done"}
                   /\ found # {}
                   /\ \A r \in found :
                         r.window_start + RATE_LIMIT_WINDOW_HOURS < clock )
                  => pc'[s] = "rl_reset"
              /\ ( pc[s] = "rl_reset" /\ pc'[s] \notin {"rl_reset", "done"} )
                  => /\ pc'[s] = "filter"
                     /\ SelectRecord(rate_limits', h) =
                            {[sender_hash |-> h, send_count |-> 1,
                              window_start |-> clock]}
      ]_vars

C3_Witness ==
    \E s \in Slots :
        /\ pc[s] = "filter"
        /\ record[s] # {}
        /\ \A r \in record[s] :
              /\ r.send_count = MAX_SENDS_PER_WINDOW
              /\ r.window_start + RATE_LIMIT_WINDOW_HOURS < clock
        /\ SelectRecord(rate_limits, data[s].senderHash) =
               {[sender_hash |-> data[s].senderHash, send_count |-> 1,
                 window_start |-> clock]}

\* C4: a request whose classifier call failed (HTTP error or exception) is
\* answered message_rejected and no email is submitted for it.
C4_Claim ==
    \A s \in Slots :
        \A i \in CallsOf(s, "filter") :
            did[s][i].arg = "failed" =>
                /\ CallsOf(s, "email") = {}
                /\ pc[s] \in {"log", "done"}
                /\ pc[s] = "done" =>
                       /\ resp[s].success = FALSE
                       /\ resp[s].error = "message_rejected"

\* C5: a request whose classifier call succeeded with a text that contains
\* REJECT submits no email, is answered 400 message_rejected and makes one
\* audit write of status rejected (a row of table sends unless the store
\* fails the insert).
C5_Theorem ==
    \A s \in Slots :
        \A i \in CallsOf(s, "filter") :
            did[s][i].arg = "reject" =>
                /\ CallsOf(s, "email") = {}
                /\ pc[s] \in {"log", "done"}
                /\ pc[s] = "done" =>
                       /\ IsError(resp[s], 400, "message_rejected")
                       /\ LoggedOnce(s, "rejected")

C5_Witness ==
    \E s \in Slots :
        /\ pc[s] = "done"
        /\ \E i \in CallsOf(s, "filter") : did[s][i].arg = "reject"
        /\ resp[s].error = "message_rejected"
        /\ added[s] = 1
        /\ sends[Len(sends)].status = "rejected"

\* what no row may hold: the message, the recipient address and the sender
\* token of any request, as sent and as normalized
Sensitive ==
    UNION { { r.body.message.v, Trim(r.body.message.v),
              r.body.recipient_email.v, Trim(r.body.recipient_email.v),
              ToLowerCase(Trim(r.body.recipient_email.v)),
              r.body.sender_token.v, Trim(r.body.sender_token.v) } \ {<<>>}
            : r \in SeqRequests \cup ConcRequests }

\* C6: no row of sends or rate_limits holds a message, a full recipient
\* address or a raw sender token: a sends row is (hash of the token, domain
\* of the recipient, context tag, status), a rate_limits row is (hash of the
\* token, count, time).
C6_Theorem ==
    /\ \A k \in 1..Len(sends) :
          /\ DOMAIN sends[k] =
                 {"sender_hash", "recipient_domain", "context_tag", "status"}
          /\ sends[k].sender_hash \in Hashes \ Sensitive
          /\ sends[k].recipient_domain \in
                 {extractDomain(e) : e \in {EmailAb}} \ Sensitive
          /\ sends[k].context_tag \in VALID_CONTEXT_TAGS \ Sensitive
          /\ sends[k].status \in {"sent", "rejected", "error"}
    /\ \A r \in rate_limits :
          /\ DOMAIN r = {"sender_hash", "send_count", "window_start"}
          /\ r.sender_hash \in Hashes \ Sensitive
          /\ r.send_count \in Nat
          /\ r.window_start \in Nat

C6_Witness ==
    /\ Len(sends) = MaxLog
    /\ rate_limits # {}
    /\ \E k \in 1..Len(sends) : sends[k].status = "sent"

\* C7: a request that passed the rate check, was allowed by the filter and
\* whose email the mail transport accepted is answered 200 {success: true}
\* and makes exactly one audit write, of status sent (one row of table sends
\* unless the store fails the insert).
C7_Theorem ==
    \A s \in Slots :
        ( /\ pc[s] = "done"
          /\ \E i \in CallsOf(s, "rate_write") : did[s][i].ok
          /\ \E i \in CallsOf(s, "filter") : did[s][i].ok
          /\ \E i \in CallsOf(s, "email") : did[s][i].arg = "accepted" )
        => /\ resp[s].status = 200
           /\ resp[s].kind = "json"
           /\ resp[s].success = TRUE
           /\ resp[s].error = ""
           /\ resp[s].reason = <<>>
           /\ LoggedOnce(s, "sent")

C7_Witness ==
    \E s \in Slots :
        /\ pc[s] = "done"
        /\ \E i \in CallsOf(s, "email") : did[s][i].arg = "accepted"
        /\ resp[s].status = 200
        /\ added[s] = 1
        /\ sends[Len(sends)].status = "sent"

\* C8: a request the filter allowed and whose mail transport call failed
\* (HTTP error or exception) is answered 500 server_error and makes exactly
\* one audit write, of status error (one row of table sends unless the store
\* fails the insert).
C8_Theorem ==
    \A s \in Slots :
        ( /\ pc[s] = "done"
          /\ \E i \in CallsOf(s, "filter") : did[s][i].ok
          /\ \E i \in CallsOf(s, "email") : did[s][i].arg = "failed" )
        => /\ IsError(resp[s], 500, "server_error")
           /\ LoggedOnce(s, "error")

C8_Witness ==
    \E s \in Slots :
        /\ pc[s] = "done"
        /\ \E i \in CallsOf(s, "email") : did[s][i].arg = "failed"
        /\ resp[s].status = 500
        /\ added[s] = 1
        /\ sends[Len(sends)].status = "error"

\* C9: the step that takes in a POST /send whose body is no valid JSON or
\* fails validation answers 400 validation_error at once: it makes no call,
\* writes no audit row and leaves both tables as they were.
C9_Theorem ==
    [][\A s \in Slots :
          ( /\ pc[s] = "idle"
            /\ pc'[s] # "idle"
            /\ req'[s].method = "POST"
            /\ req'[s].path = "/send"
            /\ req'[s].body \in InvalidBodies )
          => /\ pc'[s] = "done"
             /\ IsError(resp'[s], 400, "validation_error")
             /\ did'[s] = <<>>
             /\ added'[s] = 0
             /\ UNCHANGED <<rate_limits, sends, window, clock>>
      ]_vars

C9_Witness ==
    \E s \in Slots :
        /\ pc[s] = "done"
        /\ IsSend(s)
        /\ req[s].body \in InvalidBodies
        /\ req[s].body.kind = "object"
        /\ resp[s].error = "validation_error"
        /\ rate_limits # {}
        /\ sends # <<>>

\* C10, as claimed: every request that is neither POST /send nor
\* OPTIONS /send is answered 404.
C10_Claim ==
    \A s \in Slots :
        ( /\ pc[s] = "done"
          /\ ~(req[s].method = "POST" /\ req[s].path = "/send")
          /\ ~(req[s].method = "OPTIONS" /\ req[s].path = "/send") )
        => resp[s].status = 404

\* C10, amended: every request that is neither an OPTIONS request nor
\* POST /send is answered 404; an OPTIONS request is answered 204 on every
\* path.
C10_Theorem ==
    \A s \in Slots :
        pc[s] = "done" =>
            /\ (req[s].method # "OPTIONS" /\ ~IsSend(s)) => resp[s] = notFoundResponse
            /\ req[s].method = "OPTIONS" => resp[s].status = 204
            /\ resp[s].status = 404 => (req[s].method # "OPTIONS" /\ ~IsSend(s))

C10_Witness ==
    \E s \in Slots :
        /\ pc[s] = "done"
        /\ req[s].method = "POST"
        /\ req[s].path = "/other"
        /\ resp[s].status = 404

\* C11: the step that takes in an OPTIONS /send answers 204 with the CORS
\* headers at once, whatever the tables hold and whatever other requests are
\* doing: it makes no call and leaves rate_limits and sends as they were.
C11_Theorem ==
    [][\A s \in Slots :
          ( /\ pc[s] = "idle"
            /\ pc'[s] # "idle"
            /\ req'[s].method = "OPTIONS"
            /\ req'[s].path = "/send" )
          => /\ pc'[s] = "done"
             /\ resp'[s].status = 204
             /\ { <<"Access-Control-Allow-Origin", "*">>,
                  <<"Access-Control-Allow-Methods", "POST, OPTIONS">>,
                  <<"Access-Control-Allow-Headers", "Content-Type">> }
                    \subseteq resp'[s].headers
             /\ did'[s] = <<>>
             /\ added'[s] = 0
             /\ UNCHANGED <<rate_limits, sends, window, clock>>
      ]_vars

C11_Witness ==
    \E s \in Slots :
        /\ pc[s] = "done"
        /\ req[s].method = "OPTIONS"
        /\ req[s].path = "/send"
        /\ resp[s].status = 204
        /\ \E r \in rate_limits : r.send_count = MAX_SENDS_PER_WINDOW
        /\ sends # <<>>

\* the last call the request of slot s has made
LastCall(s) == did[s][Len(did[s])]

\* the response the steps before the audit write have decided on
DecidedResponse(s) ==
    CASE LastCall(s).op = "rate_read" -> rateLimitedResponse
      [] LastCall(s).op = "filter"    -> messageRejectedResponse
      [] LastCall(s).op = "email" /\ LastCall(s).ok  -> successResponse
      [] LastCall(s).op = "email" /\ ~LastCall(s).ok -> emailFailedResponse

\* C12: the response returned after the audit write is the one the steps
\* before it decided on (200 after a sent email, 429 or 400 after a
\* rejection, 500 after a failed delivery), the same whether logSend's INSERT
\* succeeds or fails.
C12_Theorem ==
    [][\A s \in Slots :
          (pc[s] = "log" /\ pc'[s] # "log")
          => /\ pc'[s] = "done"
             /\ LastCall(s).op \in {"rate_read", "filter", "email"}
             /\ resp'[s] = DecidedResponse(s)
             /\ did'[s] = Append(did[s], Call("log", pending[s].status,
                                              Len(sends') > Len(sends)))
      ]_vars

C12_Witness ==
    \E s \in Slots :
        /\ pc[s] = "done"
        /\ did[s] # <<>>
        /\ LastCall(s).op = "log"
        /\ LastCall(s).arg = "sent"
        /\ ~LastCall(s).ok
        /\ added[s] = 0
        /\ resp[s].status = 200
        /\ resp[s].success

\* the step makes a call of the request of slot s that throws out of its
\* pipeline step: a call of checkRateLimit on the store
Throws(s) ==
    /\ Len(did'[s]) = Len(did[s]) + 1
    /\ did'[s][Len(did'[s])].op \in {"rate_read", "rate_write"}
    /\ ~did'[s][Len(did'[s])].ok

\* C13: an exception that leaves a step of the pipeline (a store call of the
\* rate check that throws) ends the request at once with the response 500
\* server_error: the handler returns a response, it writes nothing more, and
\* every request that ends has a response.
C13_Theorem ==
    [][\A s \in Slots :
          /\ Throws(s) =>
                /\ pc'[s] = "done"
                /\ IsError(resp'[s], 500, "server_error")
                /\ UNCHANGED <<rate_limits, sends>>
          /\ (pc[s] # "done" /\ pc'[s] = "done") =>
                resp'[s].status \in {200, 204, 400, 404, 429, 500}
      ]_vars

C13_Witness ==
    \E s \in Slots :
        /\ pc[s] = "done"
        /\ did[s] # <<>>
        /\ LastCall(s).op = "rate_write"
        /\ ~LastCall(s).ok
        /\ resp[s].status = 500
        /\ resp[s].error = "server_error"

\* the five shapes of a response to POST /send: <<status, success, error>>
ResponseShapes ==
    { <<200, TRUE, "">>,
      <<400, FALSE, "validation_error">>,
      <<400, FALSE, "message_rejected">>,
      <<429, FALSE, "rate_limited">>,
      <<500, FALSE, "server_error">> }

\* C14: every response to a POST /send is a JSON body of one of the five
\* shapes: 200 success, 400 validation_error, 400 message_rejected,
\* 429 rate_limited, 500 server_error; an error carries a reason, a success
\* none.
C14_Theorem ==
    \A s \in Slots :
        (pc[s] = "done" /\ IsSend(s)) =>
            /\ resp[s].kind = "json"
            /\ <<resp[s].status, resp[s].success, resp[s].error>> \in ResponseShapes
            /\ resp[s].success <=> resp[s].reason = <<>>

C14_Witness ==
    \E s \in Slots :
        /\ pc[s] = "done"
        /\ IsSend(s)
        /\ did[s] # <<>>
        /\ LastCall(s).op = "log"
        /\ resp[s].status = 429
        /\ resp[s].error = "rate_limited"

\* the request of slot s passed validation and has ended without success
EndedInFailure(s) ==
    /\ pc[s] = "done"
    /\ IsSend(s)
    /\ data[s] # NoData
    /\ ~resp[s].success

\* the request of slot s made exactly one audit write, of `status`, as its
\* last call
LoggedLast(s, status) ==
    /\ Cardinality(CallsOf(s, "log")) = 1
    /\ LastCall(s).op = "log"
    /\ LastCall(s).arg = status

\* C15, as claimed: every request that passed validation and ended without
\* success has made an audit write before its response, whichever step
\* failed.
C15_Claim ==
    \A s \in Slots :
        EndedInFailure(s) => CallsOf(s, "log") # {}

\* C15, amended: a request that passed validation and ended without success
\* has made one audit write as its last call before the response, with
\* status rejected after a denial of the rate limiter or of the filter and
\* status error after a failed delivery, unless a store call of the rate
\* check threw: then it is answered 500 with no audit write at all.
C15_Theorem ==
    \A s \in Slots :
        EndedInFailure(s) =>
            /\ did[s] # <<>>
            /\ resp[s].status = 429 => LoggedLast(s, "rejected")
            /\ resp[s].status = 400 => LoggedLast(s, "rejected")
            /\ (resp[s].status = 500 /\ CallsOf(s, "email") # {}) =>
                   LoggedLast(s, "error")
            /\ (resp[s].status = 500 /\ CallsOf(s, "email") = {}) =>
                   /\ CallsOf(s, "log") = {}
                   /\ LastCall(s).op \in {"rate_read", "rate_write"}
                   /\ ~LastCall(s).ok
            /\ resp[s].status \in {400, 429, 500}

C15_Witness ==
    \E s \in Slots :
        /\ EndedInFailure(s)
        /\ resp[s].status = 500
        /\ LastCall(s).op = "rate_read"
        /\ ~LastCall(s).ok
        /\ CallsOf(s, "log") = {}

\* the place of a call in the pipeline
Rank(op) ==
    CASE op = "rate_read"  -> 1
      [] op = "rate_write" -> 2
      [] op = "filter"     -> 3
      [] op = "email"      -> 4
      [] op = "log"        -> 5

\* the call ended its step in failure: it threw or it answered no
StepFailed(call) == ~call.ok \/ (call.op = "rate_read" /\ call.arg = "deny")

C17_Claim ==
    \A s \in Slots :
        /\ \A op \in {"rate_read", "rate_write", "filter", "email", "log"} :
              Cardinality(CallsOf(s, op)) <= 1
        /\ (pc[s] = "done" /\ IsSend(s) /\ ~resp[s].success) =>
               CallsOf(s, "email") = {}

\* C17, amended: no step is made twice; a request that is rejected (400,
\* 429) or fails before the delivery step has submitted no email, and a
\* failing request that has submitted one is a request whose one submission
\* failed and that is answered 500 server_error.
C17_Theorem ==
    \A s \in Slots :
        /\ \A op \in {"rate_read", "rate_write", "filter", "email", "log"} :
              Cardinality(CallsOf(s, op)) <= 1
        /\ (pc[s] = "done" /\ IsSend(s) /\ ~resp[s].success) =>
              /\ resp[s].status \in {400, 429} => CallsOf(s, "email") = {}
              /\ \A i \in CallsOf(s, "email") :
                    /\ did[s][i].arg = "failed"
                    /\ ~did[s][i].ok
                    /\ IsError(resp[s], 500, "server_error")
              /\ (\E i \in 1..Len(did[s]) :
                     /\ did[s][i].op \in {"rate_read", "rate_write", "filter"}
                     /\ StepFailed(did[s][i])) =>
                    CallsOf(s, "email") = {}

C17_Witness ==
    \E s \in Slots :
        /\ pc[s] = "done"
        /\ IsSend(s)
        /\ ~resp[s].success
        /\ Cardinality(CallsOf(s, "email")) = 1
        /\ resp[s].status = 500

\* C18: a rate check that finds the identifier's record inside its window
\* (window_start not more than 24 hours back) with send_count at 5 or above
\* denies: the request goes to the audit write with the answer 429, and
\* neither the check nor the rest of the request changes the record.
C18_Theorem ==
    [][\A s \in Slots :
          LET found == SelectRecord(rate_limits, data[s].senderHash)
          IN  /\ ( /\ pc[s] = "rate_read"
                   /\ pc'[s] \notin {"rate_read", "done"}
                   /\ found # {}
                   /\ \A r \in found :
                         /\ r.window_start + RATE_LIMIT_WINDOW_HOURS >= clock
                         /\ r.send_count >= MAX_SENDS_PER_WINDOW )
                  => /\ pc'[s] = "log"
                     /\ pending'[s].resp.status = 429
                     /\ pending'[s].status = "rejected"
                     /\ rate_limits' = rate_limits
              /\ ( pc[s] = "log" /\ pc'[s] # "log" )
                  => rate_limits' = rate_limits
      ]_vars

C18_Witness ==
    \E s \in Slots :
        /\ pc[s] = "log"
        /\ LastCall(s).op = "rate_read"
        /\ LastCall(s).arg = "deny"
        /\ record[s] = SelectRecord(rate_limits, data[s].senderHash)
        /\ \E r \in record[s] :
              /\ r.send_count = MAX_SENDS_PER_WINDOW
              /\ r.window_start < clock
              /\ clock <= r.window_start + RATE_LIMIT_WINDOW_HOURS

\* C19: the window is fixed: a record's window_start is written when the
\* record is created and when an expired window is reset, both times to now
\* with send_count 1; every other step leaves it as it is, an allowed
\* increment adding 1 to send_count only.  So window_start stays the time of
\* the first request let through in the running window.
C19_Theorem ==
    [][\A h \in Hashes :
          LET before == SelectRecord(rate_limits, h)
              after  == SelectRecord(rate_limits', h)
          IN  /\ before # {} => after # {}
              /\ \A rb \in before : \A ra \in after :
                    \/ ra = rb
                    \/ /\ ra.window_start = rb.window_start
                       /\ ra.send_count = rb.send_count + 1
                    \/ /\ rb.window_start + RATE_LIMIT_WINDOW_HOURS < clock
                       /\ ra.window_start = clock
                       /\ ra.send_count = 1
              /\ before = {} =>
                    \A ra \in after : ra.window_start = clock /\ ra.send_count = 1
              /\ \A ra \in after : ra.window_start = window'[h].start
      ]_vars

C19_Witness ==
    \E s \in Slots : \E r \in rate_limits :
        /\ pc[s] = "filter"
        /\ LastCall(s).arg = "rl_increment"
        /\ r.sender_hash = data[s].senderHash
        /\ r.send_count = MAX_SENDS_PER_WINDOW
        /\ r.window_start > 0
        /\ r.window_start < clock

\* C20: under every interleaving, a request whose rate check read no record
\* of its identifier has its INSERT of the record taken whenever the store
\* is up, and so goes on to the filter.
C20_Claim ==
    \A s \in Slots :
        \A i \in CallsOf(s, "rate_write") :
            did[s][i].arg = "rl_insert" => did[s][i].ok

\* validateRequest has returned `result` on `body`
Validated_(body, result) ==
    /\ input.fn = "validateRequest"
    /\ output.done
    /\ body = input.arg
    /\ result = output.val

\* the field is a string with a character that is no white space
Filled(x) == x.t = "string" /\ \E i \in 1..Len(x.v) : x.v[i] \notin WhiteSpace

\* the checks in the order of the claim, each with the reasons it can give
ClaimedChecks(body) ==
    << [ok |-> body.kind = "object", reasons |-> {ReasonNotObject}],
       [ok |-> Filled(body.message) /\ Len(body.message.v) <= MAX_MESSAGE_LENGTH,
        reasons |-> {ReasonMessage, ReasonTooLong}],
       [ok |-> Filled(body.recipient_email) /\ isValidEmail(body.recipient_email.v),
        reasons |-> {ReasonRecipient, ReasonEmailFormat}],
       [ok |-> Filled(body.context_tag) /\ body.context_tag.v \in VALID_CONTEXT_TAGS,
        reasons |-> {ReasonContextTag, ReasonInvalidTag}],
       [ok |-> Filled(body.sender_token), reasons |-> {ReasonSenderToken}] >>

\* the checks in the order in which they are made
OrderedChecks(body) ==
    << [ok |-> body.kind = "object", reasons |-> {ReasonNotObject}],
       [ok |-> Filled(body.message), reasons |-> {ReasonMessage}],
       [ok |-> Filled(body.recipient_email), reasons |-> {ReasonRecipient}],
       [ok |-> Filled(body.context_tag), reasons |-> {ReasonContextTag}],
       [ok |-> Filled(body.sender_token), reasons |-> {ReasonSenderToken}],
       [ok |-> Len(body.message.v) <= MAX_MESSAGE_LENGTH, reasons |-> {ReasonTooLong}],
       [ok |-> isValidEmail(body.recipient_email.v), reasons |-> {ReasonEmailFormat}],
       [ok |-> body.context_tag.v \in VALID_CONTEXT_TAGS,
        reasons |-> {ReasonInvalidTag}] >>

\* the reasons of the first check of `checks` that fails, {""} when none does
FirstFailing(checks) ==
    LET failing == {i \in 1..Len(checks) : ~checks[i].ok}
    IN  IF failing = {} THEN {""}
        ELSE checks[CHOOSE i \in failing : \A j \in failing : i <= j].reasons

\* C21, as claimed: the reason validateRequest returns is that of the first
\* violated check in the order object, message (non-empty, within the
\* length), recipient (valid email), context tag (in the set), sender token.
C21_Claim ==
    \A body \in {input.arg} : \A result \in {output.val} :
        Validated_(body, result) =>
            result.reason \in FirstFailing(ClaimedChecks(body))

\* C21, amended: the reason validateRequest returns is that of the first
\* violated check in the order: body is an object; message, recipient,
\* context tag, sender token are non-blank strings (in this order); message
\* within the length; recipient matches the email pattern; context tag in
\* the set.
C21_Theorem ==
    \A body \in {input.arg} : \A result \in {output.val} :
        Validated_(body, result) =>
            /\ result.reason \in FirstFailing(OrderedChecks(body))
            /\ result.valid <=> result.reason = ""

C21_Witness ==
    \E body \in {input.arg} : \E result \in {output.val} :
        /\ Validated_(body, result)
        /\ Len(body.message.v) > MAX_MESSAGE_LENGTH
        /\ ~isValidEmail(body.recipient_email.v)
        /\ Filled(body.recipient_email)
        /\ ~Filled(body.sender_token)
        /\ result.reason = ReasonSenderToken

\* C22: validateRequest accepts a body exactly when it is an object whose
\* four fields are non-blank strings, whose message has at most 2000
\* characters, whose recipient matches the email pattern and whose context
\* tag is one of the 8 values; what it returns then is the trimmed message
\* (non-empty, at most 2000 characters), the trimmed lower-cased email, the
\* tag and the trimmed non-empty sender token.
C22_Theorem ==
    \A body \in {input.arg} : \A result \in {output.val} :
        Validated_(body, result) =>
            /\ result.valid <=>
                  /\ body.kind = "object"
                  /\ Filled(body.message) /\ Filled(body.recipient_email)
                  /\ Filled(body.context_tag) /\ Filled(body.sender_token)
                  /\ Len(body.message.v) <= MAX_MESSAGE_LENGTH
                  /\ isValidEmail(body.recipient_email.v)
                  /\ body.context_tag.v \in VALID_CONTEXT_TAGS
            /\ result.valid =>
                  /\ result.data.message = Trim(body.message.v)
                  /\ result.data.message # <<>>
                  /\ Len(result.data.message) <= MAX_MESSAGE_LENGTH
                  /\ result.data.recipient_email =
                         ToLowerCase(Trim(body.recipient_email.v))
                  /\ \A i \in 1..Len(result.data.recipient_email) :
                        /\ result.data.recipient_email[i] \notin WhiteSpace
                        /\ \A k \in 1..26 :
                              result.data.recipient_email[i] # UPPER[k]
                  /\ result.data.context_tag \in VALID_CONTEXT_TAGS
                  /\ result.data.sender_token = Trim(body.sender_token.v)
                  /\ result.data.sender_token # <<>>
                  /\ result.data.sender_token[1] \notin WhiteSpace
                  /\ result.data.sender_token[Len(result.data.sender_token)]
                         \notin WhiteSpace

C22_Witness ==
    \E body \in {input.arg} : \E result \in {output.val} :
        /\ Validated_(body, result)
        /\ result.valid
        /\ Len(body.message.v) = MAX_MESSAGE_LENGTH
        /\ body.sender_token.v # result.data.sender_token
        /\ body.recipient_email.v # result.data.recipient_email

\* filterMessage has returned on the classifier response `outcome`
Filtered(outcome) ==
    /\ input.fn = "filterMessage"
    /\ output.done
    /\ outcome = input.arg

\* the text holds the word REJECT in upper or lower case letters
HoldsReject(text) ==
    \E i \in 1..(Len(text) - 5) :
        /\ text[i]     \in {"R", "r"}
        /\ text[i + 1] \in {"E", "e"}
        /\ text[i + 2] \in {"J", "j"}
        /\ text[i + 3] \in {"E", "e"}
        /\ text[i + 4] \in {"C", "c"}
        /\ text[i + 5] \in {"T", "t"}

\* C23: for a classifier call that returns an OK response, filterMessage
\* denies exactly when the first candidate's text, trimmed and upper-cased,
\* is non-empty and contains REJECT; a missing, empty or unparseable text
\* yields allow.
C23_Theorem ==
    \A outcome \in {input.arg} :
        Filtered(outcome) /\ outcome.kind \in {"ok", "unparseable"} =>
            /\ output.val = FALSE <=>
                  /\ outcome.kind = "ok"
                  /\ outcome.text.t = "string"
                  /\ \E i \in 1..Len(outcome.text.v) :
                        outcome.text.v[i] \notin WhiteSpace
                  /\ HoldsReject(outcome.text.v)
            /\ outcome.kind = "unparseable" => output.val = TRUE
            /\ outcome.text.t # "string" => output.val = TRUE
            /\ (\A i \in 1..Len(outcome.text.v) : outcome.text.v[i] \in WhiteSpace)
                  => output.val = TRUE

C23_Witness ==
    \E outcome \in {input.arg} :
        /\ Filtered(outcome)
        /\ outcome.kind = "ok"
        /\ outcome.text.t = "string"
        /\ HoldsReject(outcome.text.v)
        /\ ~Includes(outcome.text.v, REJECT)
        /\ outcome.text.v[1] \in WhiteSpace
        /\ output.val = FALSE

\* escapeHtml has returned `html` on `text`: the message as sendEmail places
\* it in the HTML body
Escaped(text, html) ==
    /\ input.fn = "escapeHtml"
    /\ output.done
    /\ text = input.arg
    /\ html = output.val

\* the five entities
Amp == <<"&", "a", "m", "p", ";">>

Lt == <<"&", "l", "t", ";">>

Gt == <<"&", "g", "t", ";">>

Quot == <<"&", "q", "u", "o", "t", ";">>

Apos == <<"&", "#", "3", "9", ";">>

\* what stands for character c in the escaped text
StandsFor(c) ==
    CASE c = "&"  -> Amp
      [] c = "<"  -> Lt
      [] c = ">"  -> Gt
      [] c = "\"" -> Quot
      [] c = "'"  -> Apos
      [] OTHER    -> <<c>>

\* where what stands for text[i] begins in the escaped text
RECURSIVE BeginsAt(_, _)
BeginsAt(text, i) ==
    IF i = 1 THEN 1 ELSE BeginsAt(text, i - 1) + Len(StandsFor(text[i - 1]))

\* C27: escapeHtml replaces every occurrence of each of & < > " ' by its
\* entity and leaves every other character unchanged, so the message as
\* placed in the HTML body contains none of < > " ' and contains & only as
\* the first character of one of the five entities.
C27_Theorem ==
    \A text \in {input.arg} : \A html \in {output.val} :
        Escaped(text, html) =>
            /\ Len(html) = BeginsAt(text, Len(text) + 1) - 1
            /\ \A i \in 1..Len(text) :
                  SubSeq(html, BeginsAt(text, i),
                         BeginsAt(text, i) + Len(StandsFor(text[i])) - 1)
                      = StandsFor(text[i])
            /\ \A i \in 1..Len(html) :
                  /\ html[i] \notin {"<", ">", "\"", "'"}
                  /\ html[i] = "&" =>
                        \E entity \in {Amp, Lt, Gt, Quot, Apos} :
                            /\ i + Len(entity) - 1 <= Len(html)
                            /\ SubSeq(html, i, i + Len(entity) - 1) = entity

C27_Witness ==
    \E text \in {input.arg} : \E html \in {output.val} :
        /\ Escaped(text, html)
        /\ text = <<"&", "'", "a">>
        /\ html = <<"&", "a", "m", "p", ";", "&", "#", "3", "9", ";", "a">>

\* the reasons that are written out in the handler's code
StaticReasons ==
    { <<reason>> : reason \in { ReasonNotObject, ReasonMessage, ReasonRecipient,
                                ReasonContextTag, ReasonSenderToken,
                                ReasonTooLong, ReasonEmailFormat,
                                ReasonInvalidTag } } \cup
    { <<"Invalid JSON in request body.">>,
      rateLimitedResponse.reason, messageRejectedResponse.reason,
      emailFailedResponse.reason }

\* C24, as claimed: the reason of every error response is one of a fixed set
\* of static phrases chosen by the failing step; it never holds text taken
\* from a caught exception.
C24_Claim ==
    \A s \in Slots :
        resp[s].kind = "json" /\ ~resp[s].success =>
            resp[s].reason \in StaticReasons

\* what the request of slot s has handed to each sink so far: the classifier
\* and the mail transport (outbound requests), the console (log lines) and
\* the two tables
Sinks(s) ==
    { [sink |-> "classifier", text |-> filterPrompt(data[s].message)] :
        i \in {i \in 1..Len(did[s]) : did[s][i].op = "filter"} } \cup
    { [sink |-> "console",
       text |-> filterLogLine(<<did[s][i].arg>>, data[s].message)] :
        i \in {i \in 1..Len(did[s]) :
                  did[s][i].op = "filter" /\ did[s][i].arg # "failed"} } \cup
    { [sink |-> "email",
       text |-> LET payload == emailPayload(data[s].recipient_email,
                                            data[s].context_tag, data[s].message)
                IN  payload.text \o payload.html] :
        i \in {i \in 1..Len(did[s]) : did[s][i].op = "email"} } \cup
    { [sink |-> "sends",
       text |-> sends[k].sender_hash \o sends[k].recipient_domain
                    \o sends[k].context_tag \o <<sends[k].status>>] :
        k \in 1..Len(sends) } \cup
    { [sink |-> "rate_limits", text |-> row.sender_hash] : row \in rate_limits }

\* the text holds the message or a part of it
HoldsPartOf(text, message) ==
    \E i \in 1..Len(message) : \E j \in i..Len(message) :
        Includes(text, SubSeq(message, i, j))

\* C25, as claimed: the message text flows only into the outbound email
\* payload; no database row, log line or other outbound request receives
\* the message or a part of it.
C25_Claim ==
    \A s \in Slots : \A k \in Sinks(s) :
        k.sink # "email" => ~HoldsPartOf(k.text, data[s].message)

\* C26: the audit log is append-only: a step of the handler only inserts
\* into sends, it never updates or deletes a row, so the log before the step
\* is a prefix of the log after it; and each request adds at most one row.
C26_Theorem ==
    [][/\ Len(sends') >= Len(sends)
       /\ \A k \in 1..Len(sends) : sends'[k] = sends[k]
       /\ Len(sends') <= Len(sends) + 1
       /\ Len(sends') = Len(sends) + 1 =>
             \E s \in Slots : /\ pc[s] = "log"
                              /\ pc'[s] = "done"
                              /\ added[s] = 0
                              /\ added'[s] = 1
       /\ \A s \in Slots : added'[s] <= 1]_vars

C26_Witness ==
    /\ Len(sends) = 2
    /\ sends[1] # sends[2]
    /\ \E s \in Slots : pc[s] = "done" /\ added[s] = 1

\* the request of slot s has made a call of `op` that satisfies `arg`
\* and did not fail
Made(s, op, args) ==
    \E i \in 1..Len(did[s]) :
        did[s][i].op = op /\ did[s][i].arg \in args /\ did[s][i].ok

\* the mail transport accepted an email of the request of slot s
Accepted(s) ==
    \E i \in 1..Len(did[s]) : did[s][i].op = "email" /\ did[s][i].arg = "accepted"

C29_Theorem ==
    /\ \A s \in Slots : pc[s] = "done" => ~resp[s].success
    /\ \A k \in 1..Len(sends) : sends[k].status \in {"rejected", "error"}
    /\ \A row \in rate_limits :
          row.send_count = window[row.sender_hash].n
    /\ \A s \in Slots :
          (pc[s] = "done" /\ sawFull[s] /\ did[s][1].ok) =>
              /\ resp[s] = rateLimitedResponse
              /\ Len(did[s]) <= 2

C29_Witness ==
    \E s \in Slots :
        /\ pc[s] = "done"
        /\ sawFull[s]
        /\ resp[s] = rateLimitedResponse
        /\ \E row \in rate_limits :
              /\ row.sender_hash = data[s].senderHash
              /\ row.send_count = MAX_SENDS_PER_WINDOW
        /\ Len(sends) = MaxLog
        /\ sends[1].status = "rejected"
        /\ sends[2].status = "error"

\* the identifier of the request in slot s: the hash of its sender token
IdentifierOf(s) == hashString(Trim(req[s].body.sender_token.v))

\* the rows of the rate-limit table that the step changes, adds or removes
Touched == (rate_limits' \ rate_limits) \cup (rate_limits \ rate_limits')

\* slot s takes a step of the rate check
RateStep(s) ==
    /\ pc[s] \in {"rate_read", "rl_insert", "rl_reset", "rl_increment"}
    /\ pc'[s] # pc[s]

\* C30: rate limiting is isolated per identifier: the rate check of a
\* request reads and writes only the record keyed by the hash of the
\* request's sender token, the identifier is a function of the token, and
\* whether the request is allowed is decided by that record and the time
\* alone, so requests of another token have no part in it.
C30_Theorem ==
    [][/\ \A s \in Slots :
             RateStep(s) =>
                /\ data[s].senderHash = IdentifierOf(s)
                /\ \A row \in Touched : row.sender_hash = IdentifierOf(s)
                /\ \A row \in record'[s] : row.sender_hash = IdentifierOf(s)
                /\ (pc[s] = "rate_read" /\ pc'[s] # "done") =>
                      /\ record'[s] =
                            {row \in rate_limits : row.sender_hash = IdentifierOf(s)}
                      /\ pc'[s] = "log" <=>
                            \E row \in rate_limits :
                               /\ row.sender_hash = IdentifierOf(s)
                               /\ clock <= row.window_start + RATE_LIMIT_WINDOW_HOURS
                               /\ row.send_count >= MAX_SENDS_PER_WINDOW
       /\ (\A s \in Slots : ~RateStep(s)) => rate_limits' = rate_limits
       /\ \A s \in Slots : \A t \in Slots :
             (pc'[s] # "idle" /\ pc'[t] # "idle" /\ IsSend(s) /\ IsSend(t)) =>
                (data'[s].senderHash = data'[t].senderHash
                    <=> data'[s].sender_token = data'[t].sender_token)
      ]_vars

C30_Witness ==
    \E s \in Slots : \E t \in Slots :
        /\ data[s].sender_token = TokenA
        /\ data[t].sender_token = TokenB
        /\ pc[s] = "done"
        /\ resp[s] = rateLimitedResponse
        /\ \E row \in rate_limits :
              /\ row.sender_hash = hashString(TokenA)
              /\ row.send_count = MAX_SENDS_PER_WINDOW
        /\ pc[t] = "filter"
        /\ did[t] = << Call("rate_read", "insert", TRUE),
                       Call("rate_write", "rl_insert", TRUE) >>

\* the request of slot s is in the responded state
Responded_(s) == pc[s] = "done"

\* C31: every request terminates with exactly one response: provided each
\* call of the store, the classifier and the mail transport returns or
\* fails, a request that has been taken up reaches the responded state, and
\* it does so once: the response is set in the step that ends the request,
\* it is set to a response, and it stays as it is until the slot is freed.
C31_Theorem ==
    /\ \A s \in Slots : (pc[s] # "idle") ~> Responded_(s)
    /\ [][\A s \in Slots :
             /\ (~Responded_(s) /\ pc'[s] = "done") =>
                   /\ resp[s] = NoResponse
                   /\ resp'[s] # NoResponse
                   /\ resp'[s].status \in {200, 204, 400, 404, 429, 500}
             /\ (~Responded_(s) /\ pc'[s] # "done") => resp'[s] = NoResponse
             /\ Responded_(s) =>
                   \/ pc'[s] = "done" /\ resp'[s] = resp[s]
                   \/ pc'[s] = "idle" /\ resp'[s] = NoResponse
      ]_vars

C31_Witness ==
    \E s \in Slots :
        /\ Responded_(s)
        /\ Len(did[s]) = 5
        /\ did[s][5].op = "log"
        /\ resp[s] # NoResponse

=============================================================================
